---------------------------- MODULE Spec2Model ----------------------------
(***************************************************************************)
(* Model of src/app/app.py (Live Santa Tracker): the Dash callback          *)
(* update_map, the telemetry fetch get_iss_telemetry, the three bounded     *)
(* deques TRACK_LAT / TRACK_LON / TRACK_VIS and split_segments.             *)
(*                                                                         *)
(* One step of Spec is one whole invocation of update_map (one tick of      *)
(* dcc.Interval).  The two HTTP exchanges are the inputs of a tick: the     *)
(* telemetry exchange is described by the exception requests raises (or     *)
(* none) and the decoded JSON body, the geocode exchange likewise.          *)
(* Not modelled: the wall clock (current_time), the static layout, the      *)
(* legend text, the image, and the four formatted readout strings.          *)
(***************************************************************************)
EXTENDS Integers, Sequences, FiniteSets, TLC

VARIABLES
    TRACK_LAT,    \* deque(maxlen=MAX_POINTS) of latitudes
    TRACK_LON,    \* deque(maxlen=MAX_POINTS) of longitudes
    TRACK_VIS,    \* deque(maxlen=MAX_POINTS) of visibility values
    track_store,  \* data of dcc.Store "track-store" (client side)
    out,          \* what the last invocation of update_map produced
    track_df,     \* the DataFrame last handed to split_segments
    segments,     \* what split_segments last returned
    seg_called,   \* SegSpec only: split_segments has been applied to track_df
    prev_state,   \* the track_data argument of the last tick
    telemetry,    \* the telemetry exchange of the last tick
    geocode,      \* the geocode exchange of the last tick
    appended,     \* history: every sample a tick appended, in tick order
    handlers      \* ConcSpec only: position and locals of each running update_map

vars == <<TRACK_LAT, TRACK_LON, TRACK_VIS, track_store, out, track_df,
          segments, seg_called, prev_state, telemetry, geocode, appended,
          handlers>>

---------------------------------------------------------------------------
(* Bounds of the model *)

\* capacity of the three deques (1080 in the source, scaled down)
MAX_POINTS == 2

\* number of successful ticks explored
MaxTicks == 4

\* SegSpec: longest DataFrame handed to split_segments
MaxLen == 4

\* ConcSpec: number of invocations of update_map that reach the appends
MaxConcTicks == 3

---------------------------------------------------------------------------
(* Constants of the program *)

color_map == [daylight |-> "white", visible |-> "#FFFF00", eclipsed |-> "red"]

\* pycountry.countries indexed by alpha_2 (two entries of the ISO table)
countries == [US |-> "United States", FR |-> "France"]

\* str.upper on the country codes the model uses
upper(code) ==
    CASE code = "us" -> "US"
      [] code = "fr" -> "FR"
      [] code = "zz" -> "ZZ"
      [] OTHER -> code


---------------------------------------------------------------------------
(* The inputs of a tick: what the two HTTP exchanges can produce *)

\* a JSON number n, a JSON string that float() rejects, or no such key
Num(n) == [t |-> "num", n |-> n]
Text == [t |-> "text", n |-> 0]
AbsentNum == [t |-> "absent", n |-> 0]

\* a JSON string s, or no such key
Str(s) == [t |-> "str", s |-> s]
AbsentStr == [t |-> "absent", s |-> ""]

\* the telemetry samples the model draws from; "twilight" stands for any
\* visibility string that is not a key of color_map
Samples ==
    { [lat |-> 1, lon |-> 7, vis |-> "daylight"],
      [lat |-> 2, lon |-> 7, vis |-> "daylight"],
      [lat |-> 1, lon |-> 8, vis |-> "visible"],
      [lat |-> 2, lon |-> 8, vis |-> "eclipsed"],
      [lat |-> 1, lon |-> 7, vis |-> "twilight"] }

\* the JSON object of a complete telemetry response carrying sample s
Body(s) ==
    [latitude |-> Num(s.lat), longitude |-> Num(s.lon), altitude |-> Num(420),
     velocity |-> Num(27600), visibility |-> Str(s.vis)]

GoodBody == Body([lat |-> 1, lon |-> 7, vis |-> "daylight"])

\* JSON objects that parse but lack a field or carry a non-numeric value
BadBodies ==
    { [GoodBody EXCEPT !.latitude = AbsentNum],
      [GoodBody EXCEPT !.latitude = Text],
      [GoodBody EXCEPT !.longitude = AbsentNum],
      [GoodBody EXCEPT !.altitude = Text],
      [GoodBody EXCEPT !.velocity = AbsentNum],
      [GoodBody EXCEPT !.visibility = AbsentStr] }

\* exc: the exception requests.get / raise_for_status / resp.json raises in
\* get_iss_telemetry ("" when none); body: the decoded JSON object
TelemetryOk(body) == [exc |-> "", body |-> body]
TelemetryExc(e) == [exc |-> e, body |-> GoodBody]

GoodTelemetry == { TelemetryOk(Body(s)) : s \in Samples }

FailedTelemetry ==
    { TelemetryExc(e) : e \in {"Timeout", "ConnectionError", "HTTPError", "JSONDecodeError"} }
    \cup { TelemetryOk(b) : b \in BadBodies }

\* exc: the exception requests raises in the country lookup ("" when none);
\* shape: the decoded JSON is an object or something else (array, string);
\* country_code: the value under that key (a string, a number, or absent)
GeocodeOk(cc) == [exc |-> "", shape |-> "object", country_code |-> cc]
GeocodeExc(e) == [exc |-> e, shape |-> "object", country_code |-> AbsentStr]
GeocodeArray == [exc |-> "", shape |-> "array", country_code |-> AbsentStr]
GeocodeNumericCode == GeocodeOk([t |-> "num", s |-> ""])
NotRequested == [exc |-> "not requested", shape |-> "object", country_code |-> AbsentStr]

Geocodes ==
    { GeocodeExc(e) : e \in {"Timeout", "ConnectionError", "HTTPError", "JSONDecodeError"} }
    \cup { GeocodeOk(Str(c)) : c \in {"", "??", "us", "FR", "zz"} }
    \cup { GeocodeOk(AbsentStr), GeocodeArray, GeocodeNumericCode }

---------------------------------------------------------------------------
(* Exceptions *)

\* requests.Timeout, ConnectionError, HTTPError and (requests >= 2.27)
\* JSONDecodeError all derive from requests.RequestException
IsRequestException(e) ==
    e \in {"Timeout", "ConnectionError", "HTTPError", "JSONDecodeError"}

\* the except clauses of get_iss_telemetry
CaughtByFetch(e) == e \in {"Timeout", "ConnectionError", "HTTPError"}

---------------------------------------------------------------------------
(* get_iss_telemetry *)

\* get_iss_telemetry with "return df" moved after the except clauses, df
\* bound before the try: a caught failure returns a DataFrame
get_iss_telemetry_returns_df(resp) ==
    IF resp.exc = "" \/ CaughtByFetch(resp.exc)
    THEN [ret |-> "df", exc |-> "", row |-> resp.body]
    ELSE [ret |-> "raise", exc |-> resp.exc, row |-> resp.body]

\* What a call returns or raises: ret = "df" with the one-row DataFrame in
\* row, ret = "None", or ret = "raise" with the escaping exception in exc.
get_iss_telemetry(resp) ==
    IF resp.exc = ""
    THEN [ret |-> "df", exc |-> "", row |-> resp.body]
    ELSE IF CaughtByFetch(resp.exc)
    THEN [ret |-> "None", exc |-> "", row |-> resp.body]
    ELSE [ret |-> "raise", exc |-> resp.exc, row |-> resp.body]

\* float(df[col].iloc[0]): the exception it raises, "" when it returns
float_exc(field) ==
    CASE field.t = "absent" -> "KeyError"
      [] field.t = "text" -> "ValueError"
      [] OTHER -> ""

\* df["visibility"].iloc[0]: the exception it raises, "" when it returns
getitem_exc(field) == IF field.t = "absent" THEN "KeyError" ELSE ""

\* lines 153-157 of update_map: the first exception raised, "" when none
extract_exc(row) ==
    LET excs == << float_exc(row.latitude), float_exc(row.longitude),
                   float_exc(row.altitude), float_exc(row.velocity),
                   getitem_exc(row.visibility) >>
        bad == { i \in 1..5 : excs[i] # "" }
    IN  IF bad = {} THEN ""
        ELSE excs[CHOOSE i \in bad : \A j \in bad : i <= j]

---------------------------------------------------------------------------
(* The country lookup of update_map *)

\* the lookup without code.upper(): alpha_2=code
country_lookup_no_upper(geo) ==
    LET fallback == [exc |-> "", country_name |-> "Ocean", country_color |-> "red"]
        code == geo.country_code
    IN  IF geo.exc # ""
        THEN IF IsRequestException(geo.exc) THEN fallback
             ELSE [fallback EXCEPT !.exc = geo.exc]
        ELSE IF geo.shape # "object"
        THEN [fallback EXCEPT !.exc = "AttributeError"]
        ELSE IF code.t = "absent" THEN fallback
        ELSE IF code.t = "num" THEN fallback
        ELSE IF code.s = "" \/ code.s = "??" THEN fallback
        ELSE IF code.s \in DOMAIN countries
        THEN [exc |-> "", country_name |-> countries[code.s],
              country_color |-> "red"]
        ELSE [exc |-> "", country_name |-> code.s, country_color |-> "red"]

\* exc: the exception that escapes the try block ("" when none);
\* country_name, country_color: the locals after the block
country_lookup(geo) ==
    LET fallback == [exc |-> "", country_name |-> "Ocean", country_color |-> "red"]
        code == geo.country_code
    IN  IF geo.exc # ""
        THEN IF IsRequestException(geo.exc) THEN fallback
             ELSE [fallback EXCEPT !.exc = geo.exc]
        ELSE IF geo.shape # "object"
        THEN [fallback EXCEPT !.exc = "AttributeError"]   \* cdata.get
        ELSE IF code.t = "absent" THEN fallback           \* code is None
        ELSE IF code.t = "num"
        THEN [fallback EXCEPT !.exc = "AttributeError"]   \* code.upper()
        ELSE IF code.s = "" \/ code.s = "??" THEN fallback
        ELSE IF upper(code.s) \in DOMAIN countries
        THEN [exc |-> "", country_name |-> countries[upper(code.s)],
              country_color |-> "red"]
        ELSE [exc |-> "", country_name |-> code.s, country_color |-> "red"]

---------------------------------------------------------------------------
(* The deques and the DataFrame *)

\* a deque constructed without maxlen
deque_append_unbounded(dq, x) == Append(dq, x)

\* a full deque that drops its newest element instead of its oldest
deque_append_evicts_newest(dq, x) ==
    IF Len(dq) >= MAX_POINTS
    THEN Append(SubSeq(dq, 1, Len(dq) - 1), x) ELSE Append(dq, x)

\* deque(maxlen=MAX_POINTS).append(x)
deque_append(dq, x) ==
    IF Len(dq) >= MAX_POINTS THEN Append(Tail(dq), x) ELSE Append(dq, x)

\* pd.DataFrame({"lat": lat, "lon": lon, "vis": vis}) for lists of one length
DataFrame(lat, lon, vis) ==
    [i \in 1..Len(lat) |-> [lat |-> lat[i], lon |-> lon[i], vis |-> vis[i]]]

\* df.iloc[a:b], a and b counted from 0 as in Python
iloc(df, a, b) == SubSeq(df, a + 1, b)

---------------------------------------------------------------------------
(* split_segments *)

RECURSIVE split_loop_eq(_, _, _, _)
\* the loop with == in place of != in the comparison of line 53
split_loop_eq(df, i, start, segs) ==
    IF i >= Len(df)
    THEN Append(segs, iloc(df, start, Len(df)))
    ELSE IF df[i + 1].vis = df[i].vis
    THEN split_loop_eq(df, i + 1, i, Append(segs, iloc(df, start, i)))
    ELSE split_loop_eq(df, i + 1, start, segs)

RECURSIVE split_loop(_, _, _, _)
\* the for loop from index i on, then the append after it
split_loop(df, i, start, segs) ==
    IF i >= Len(df)
    THEN Append(segs, iloc(df, start, Len(df)))
    ELSE IF df[i + 1].vis # df[i].vis
    THEN split_loop(df, i + 1, i, Append(segs, iloc(df, start, i)))
    ELSE split_loop(df, i + 1, start, segs)

\* split_segments without the append after the loop (line 56)
split_segments_no_tail(df) ==
    IF df = <<>> THEN <<>>
    ELSE LET segs == split_loop(df, 1, 0, <<>>)
         IN  SubSeq(segs, 1, Len(segs) - 1)

split_segments(df) ==
    IF df = <<>> THEN <<>> ELSE split_loop(df, 1, 0, <<>>)

---------------------------------------------------------------------------
(* The figure *)

column(seg, name) == [i \in 1..Len(seg) |-> seg[i][name]]

\* go.Scattergeo(lat=seg["lat"], lon=seg["lon"], mode="lines", line=...)
line_trace(seg, vtype) ==
    [mode |-> "lines", lat |-> column(seg, "lat"), lon |-> column(seg, "lon"),
     color |-> color_map[vtype], geo |-> "geo"]

RECURSIVE line_traces_unfiltered(_)
\* the loop without the test of line 198, the colour taken with
\* color_map.get(vtype, "#FFFFFF")
line_traces_unfiltered(segs) ==
    IF segs = <<>> THEN <<>>
    ELSE LET seg == Head(segs)
             vtype == seg[1].vis
         IN  << [mode |-> "lines", lat |-> column(seg, "lat"),
                 lon |-> column(seg, "lon"),
                 color |-> IF vtype \in DOMAIN color_map
                           THEN color_map[vtype] ELSE "#FFFFFF",
                 geo |-> "geo"] >>
             \o line_traces_unfiltered(Tail(segs))

RECURSIVE line_traces(_)
\* the loop "for seg in split_segments(track_df)"
line_traces(segs) ==
    IF segs = <<>> THEN <<>>
    ELSE LET seg == Head(segs)
             vtype == seg[1].vis
         IN  (IF vtype \in DOMAIN color_map
              THEN << line_trace(seg, vtype) >> ELSE <<>>)
             \o line_traces(Tail(segs))

\* color_map.get(vis, "#FFFFFF")
current_color(vis) ==
    IF vis \in DOMAIN color_map THEN color_map[vis] ELSE "#FFFFFF"

\* the main marker with lat and lon exchanged
main_marker_swapped(lat, lon) ==
    [mode |-> "text", lat |-> <<lon>>, lon |-> <<lat>>, color |-> "", geo |-> "geo"]

main_marker(lat, lon) ==
    [mode |-> "text", lat |-> <<lat>>, lon |-> <<lon>>, color |-> "", geo |-> "geo"]

inset_marker(lat, lon, vis) ==
    [mode |-> "markers", lat |-> <<lat>>, lon |-> <<lon>>,
     color |-> current_color(vis), geo |-> "geo2"]

---------------------------------------------------------------------------
(* update_map *)

EmptyStore == [lat |-> <<>>, lon |-> <<>>, vis |-> <<>>]

\* What an invocation produces.  kind is "return" (the six outputs),
\* "PreventUpdate" (Dash updates nothing) or "raised" (another exception, exc,
\* left the callback: Dash answers with an error and updates nothing).
\* fig is the sequence of traces, country_name / country_color the text and
\* the colour of the location annotation, track_data the store output.
Produced(kind, exc) ==
    [kind |-> kind, exc |-> exc, fig |-> <<>>, country_name |-> "",
     country_color |-> "", track_data |-> EmptyStore]

\* the invocation ended at a raise: nothing was appended
Aborted(kind, exc) ==
    [lat |-> TRACK_LAT, lon |-> TRACK_LON, vis |-> TRACK_VIS,
     track_df |-> track_df, segments |-> segments, called |-> seg_called,
     appended |-> <<>>, out |-> Produced(kind, exc)]

\* update_map with line 191 moved above the appends of lines 179-181: the
\* store output is copied from the deques before the new sample is in them
append_and_render_stale_store(lat, lon, vis, loc) ==
    LET new_lat == deque_append(TRACK_LAT, lat)
        new_lon == deque_append(TRACK_LON, lon)
        new_vis == deque_append(TRACK_VIS, vis)
        tdf == DataFrame(new_lat, new_lon, new_vis)
        segs == split_segments(tdf)
        fig == line_traces(segs)
               \o << main_marker(lat, lon), inset_marker(lat, lon, vis) >>
    IN  [lat |-> new_lat, lon |-> new_lon, vis |-> new_vis,
         track_df |-> tdf, segments |-> segs, called |-> TRUE,
         appended |-> << [lat |-> lat, lon |-> lon, vis |-> vis] >>,
         out |-> [kind |-> "return", exc |-> "", fig |-> fig,
                  country_name |-> loc.country_name,
                  country_color |-> loc.country_color,
                  track_data |-> [lat |-> TRACK_LAT, lon |-> TRACK_LON,
                                  vis |-> TRACK_VIS]]]

\* lines 179-286: the three appends, the DataFrame and the store output built
\* from the list copies, the figure.  float() of a JSON number keeps its
\* value, so lat and lon are the numbers of the response.
append_and_render(lat, lon, vis, loc) ==
    LET new_lat == deque_append(TRACK_LAT, lat)
        new_lon == deque_append(TRACK_LON, lon)
        new_vis == deque_append(TRACK_VIS, vis)
        tdf == DataFrame(new_lat, new_lon, new_vis)
        segs == split_segments(tdf)
        fig == line_traces(segs)
               \o << main_marker(lat, lon), inset_marker(lat, lon, vis) >>
    IN  [lat |-> new_lat, lon |-> new_lon, vis |-> new_vis,
         track_df |-> tdf, segments |-> segs, called |-> TRUE,
         appended |-> << [lat |-> lat, lon |-> lon, vis |-> vis] >>,
         out |-> [kind |-> "return", exc |-> "", fig |-> fig,
                  country_name |-> loc.country_name,
                  country_color |-> loc.country_color,
                  track_data |-> [lat |-> new_lat, lon |-> new_lon,
                                  vis |-> new_vis]]]

\* update_map as it would be with the history kept in the store: the store
\* output is the track_data argument with the new sample appended
update_map_from_store(track_data, resp, geo) ==
    LET df == get_iss_telemetry(resp)
    IN  IF df.ret = "raise" THEN Aborted("raised", df.exc)
        ELSE IF df.ret = "None" THEN Aborted("PreventUpdate", "")
        ELSE IF extract_exc(df.row) # ""
        THEN Aborted("raised", extract_exc(df.row))
        ELSE LET loc == country_lookup(geo)
                 r == append_and_render(df.row.latitude.n, df.row.longitude.n,
                                        df.row.visibility.s, loc)
             IN  IF loc.exc # "" THEN Aborted("raised", loc.exc)
                 ELSE [r EXCEPT !.out.track_data =
                          [lat |-> deque_append(track_data.lat, df.row.latitude.n),
                           lon |-> deque_append(track_data.lon, df.row.longitude.n),
                           vis |-> deque_append(track_data.vis, df.row.visibility.s)]]

\* update_map(_, track_data) with the two exchanges resp and geo.  The
\* argument track_data is overwritten before it is read (line 191).
update_map(track_data, resp, geo) ==
    LET df == get_iss_telemetry(resp)
    IN  IF df.ret = "raise" THEN Aborted("raised", df.exc)
        ELSE IF df.ret = "None" THEN Aborted("PreventUpdate", "")
        ELSE IF extract_exc(df.row) # ""
        THEN Aborted("raised", extract_exc(df.row))
        ELSE LET loc == country_lookup(geo)
             IN  IF loc.exc # "" THEN Aborted("raised", loc.exc)
                 ELSE append_and_render(df.row.latitude.n, df.row.longitude.n,
                                        df.row.visibility.s, loc)

---------------------------------------------------------------------------
(* The threads of the server that run update_map *)

Handlers == {"h1", "h2"}

\* a thread that is not inside update_map
Idle ==
    [pc |-> "idle", lat |-> 0, lon |-> 0, vis |-> "", country_name |-> "",
     country_color |-> "",
     df_lat |-> <<>>, df_lon |-> <<>>, df_vis |-> <<>>,
     st_lat |-> <<>>, st_lon |-> <<>>, st_vis |-> <<>>]

---------------------------------------------------------------------------
(* The specification: one step is one tick of dcc.Interval *)

Init ==
    /\ TRACK_LAT = <<>>
    /\ TRACK_LON = <<>>
    /\ TRACK_VIS = <<>>
    /\ track_store = EmptyStore
    /\ out = Produced("none", "")
    /\ track_df = <<>>
    /\ segments = <<>>
    /\ seg_called = FALSE
    /\ prev_state = EmptyStore
    /\ telemetry = TelemetryExc("no tick yet")
    /\ geocode = NotRequested
    /\ appended = <<>>
    /\ handlers = [t \in Handlers |-> Idle]

\* Dash calls update_map with the store's data and applies what it returns
Tick(resp, geo) ==
    \E r \in { update_map(track_store, resp, geo) } :
        /\ TRACK_LAT' = r.lat
        /\ TRACK_LON' = r.lon
        /\ TRACK_VIS' = r.vis
        /\ track_df' = r.track_df
        /\ segments' = r.segments
        /\ seg_called' = r.called
        /\ out' = r.out
        /\ track_store' = IF r.out.kind = "return" THEN r.out.track_data
                          ELSE track_store
        /\ prev_state' = track_store
        /\ telemetry' = resp
        /\ geocode' = geo
        /\ appended' = appended \o r.appended
        /\ handlers' = handlers

\* a tick whose telemetry exchange fails or carries an incomplete body: the
\* country lookup is never reached
TickTelemetryFails ==
    \E resp \in FailedTelemetry : Tick(resp, NotRequested)

\* a tick whose telemetry exchange carries a complete body
TickTelemetryArrives ==
    /\ Len(appended) < MaxTicks
    /\ \E resp \in GoodTelemetry, geo \in Geocodes : Tick(resp, geo)

Next == TickTelemetryFails \/ TickTelemetryArrives

Spec == Init /\ [][Next]_vars

---------------------------------------------------------------------------
(* Ticks of a client whose page is loaded again between ticks *)

\* the page is (re)loaded: the layout sets the store to its initial data
PageLoad ==
    /\ track_store' = EmptyStore
    /\ UNCHANGED <<TRACK_LAT, TRACK_LON, TRACK_VIS, out, track_df, segments,
                   seg_called, prev_state, telemetry, geocode, appended,
                   handlers>>

StoreSamples ==
    { [lat |-> 1, lon |-> 7, vis |-> "daylight"],
      [lat |-> 2, lon |-> 8, vis |-> "eclipsed"],
      [lat |-> 1, lon |-> 7, vis |-> "twilight"] }

StoreTelemetry == { TelemetryOk(Body(s)) : s \in StoreSamples }

StoreGeocodes == { GeocodeOk(Str("us")), GeocodeExc("Timeout"), GeocodeArray }

\* a tick whose telemetry exchange carries a complete body
StoreTick ==
    /\ Len(appended) < MaxTicks
    /\ \E resp \in StoreTelemetry, geo \in StoreGeocodes : Tick(resp, geo)

StoreNext == PageLoad \/ TickTelemetryFails \/ StoreTick

StoreSpec == Init /\ [][StoreNext]_vars

---------------------------------------------------------------------------
(* Overlapping invocations of update_map: the code takes no lock, so the
   threads interleave between any two accesses of the deques.  One step is
   one append, one list copy, or a stretch of code that touches no deque. *)

\* each coordinate and each visibility belongs to one sample only
ConcSamples ==
    { [lat |-> 1, lon |-> 7, vis |-> "daylight"],
      [lat |-> 2, lon |-> 8, vis |-> "eclipsed"] }

ConcTelemetry ==
    { TelemetryOk(Body(s)) : s \in ConcSamples } \cup { TelemetryExc("Timeout") }

ConcGeocodes == { GeocodeOk(Str("us")), GeocodeArray }

\* the threads that are inside update_map, past the country lookup
InFlight == { t \in Handlers : handlers[t].pc # "idle" }

\* thread t moves to h
Becomes(t, h) == handlers' = [handlers EXCEPT ![t] = h]

\* lines 149-173: the fetch, the five reads of the row, the country lookup
ConcFetch(t) ==
    /\ handlers[t].pc = "idle"
    /\ Len(appended) + Cardinality(InFlight) < MaxConcTicks
    /\ \E resp \in ConcTelemetry, geo \in ConcGeocodes :
          \E df \in { get_iss_telemetry(resp) } :
             \E loc \in { country_lookup(geo) } :
                /\ telemetry' = resp
                /\ prev_state' = track_store
                /\ IF df.ret = "raise"
                   THEN /\ out' = Produced("raised", df.exc)
                        /\ geocode' = NotRequested
                        /\ handlers' = handlers
                   ELSE IF df.ret = "None"
                   THEN /\ out' = Produced("PreventUpdate", "")
                        /\ geocode' = NotRequested
                        /\ handlers' = handlers
                   ELSE IF extract_exc(df.row) # ""
                   THEN /\ out' = Produced("raised", extract_exc(df.row))
                        /\ geocode' = NotRequested
                        /\ handlers' = handlers
                   ELSE IF loc.exc # ""
                   THEN /\ out' = Produced("raised", loc.exc)
                        /\ geocode' = geo
                        /\ handlers' = handlers
                   ELSE /\ out' = out
                        /\ geocode' = geo
                        /\ Becomes(t, [Idle EXCEPT
                               !.pc = "append_lat",
                               !.lat = df.row.latitude.n,
                               !.lon = df.row.longitude.n,
                               !.vis = df.row.visibility.s,
                               !.country_name = loc.country_name,
                               !.country_color = loc.country_color])
    /\ UNCHANGED <<TRACK_LAT, TRACK_LON, TRACK_VIS, track_store, track_df,
                   segments, seg_called, appended>>

\* line 179
ConcAppendLat(t) ==
    /\ handlers[t].pc = "append_lat"
    /\ TRACK_LAT' = deque_append(TRACK_LAT, handlers[t].lat)
    /\ Becomes(t, [handlers[t] EXCEPT !.pc = "append_lon"])
    /\ UNCHANGED <<TRACK_LON, TRACK_VIS, track_store, out, track_df, segments,
                   seg_called, prev_state, telemetry, geocode, appended>>

\* line 180
ConcAppendLon(t) ==
    /\ handlers[t].pc = "append_lon"
    /\ TRACK_LON' = deque_append(TRACK_LON, handlers[t].lon)
    /\ Becomes(t, [handlers[t] EXCEPT !.pc = "append_vis"])
    /\ UNCHANGED <<TRACK_LAT, TRACK_VIS, track_store, out, track_df, segments,
                   seg_called, prev_state, telemetry, geocode, appended>>

\* line 181
ConcAppendVis(t) ==
    /\ handlers[t].pc = "append_vis"
    /\ TRACK_VIS' = deque_append(TRACK_VIS, handlers[t].vis)
    /\ appended' = Append(appended, [lat |-> handlers[t].lat,
                                     lon |-> handlers[t].lon,
                                     vis |-> handlers[t].vis])
    /\ Becomes(t, [handlers[t] EXCEPT !.pc = "df_lat"])
    /\ UNCHANGED <<TRACK_LAT, TRACK_LON, track_store, out, track_df, segments,
                   seg_called, prev_state, telemetry, geocode>>

\* lines 185-187 and 191: one list(TRACK_...) copy
ConcCopy(t) ==
    /\ handlers[t].pc \in {"df_lat", "df_lon", "df_vis", "st_lat", "st_lon", "st_vis"}
    /\ Becomes(t,
          CASE handlers[t].pc = "df_lat" ->
                  [handlers[t] EXCEPT !.df_lat = TRACK_LAT, !.pc = "df_lon"]
            [] handlers[t].pc = "df_lon" ->
                  [handlers[t] EXCEPT !.df_lon = TRACK_LON, !.pc = "df_vis"]
            [] handlers[t].pc = "df_vis" ->
                  [handlers[t] EXCEPT !.df_vis = TRACK_VIS, !.pc = "DataFrame"]
            [] handlers[t].pc = "st_lat" ->
                  [handlers[t] EXCEPT !.st_lat = TRACK_LAT, !.pc = "st_lon"]
            [] handlers[t].pc = "st_lon" ->
                  [handlers[t] EXCEPT !.st_lon = TRACK_LON, !.pc = "st_vis"]
            [] handlers[t].pc = "st_vis" ->
                  [handlers[t] EXCEPT !.st_vis = TRACK_VIS, !.pc = "figure"])
    /\ UNCHANGED <<TRACK_LAT, TRACK_LON, TRACK_VIS, track_store, out, track_df,
                   segments, seg_called, prev_state, telemetry, geocode,
                   appended>>

\* line 184: pd.DataFrame raises ValueError for arrays of different lengths
ConcDataFrame(t) ==
    /\ handlers[t].pc = "DataFrame"
    /\ IF Len(handlers[t].df_lat) = Len(handlers[t].df_lon)
          /\ Len(handlers[t].df_lon) = Len(handlers[t].df_vis)
       THEN /\ Becomes(t, [handlers[t] EXCEPT !.pc = "st_lat"])
            /\ out' = out
       ELSE /\ Becomes(t, Idle)
            /\ out' = Produced("raised", "ValueError")
    /\ UNCHANGED <<TRACK_LAT, TRACK_LON, TRACK_VIS, track_store, track_df,
                   segments, seg_called, prev_state, telemetry, geocode,
                   appended>>

\* lines 193-286: the figure from the DataFrame, the return
ConcFigure(t) ==
    /\ handlers[t].pc = "figure"
    /\ \E h \in { handlers[t] } :
          \E tdf \in { DataFrame(h.df_lat, h.df_lon, h.df_vis) } :
             \E segs \in { split_segments(tdf) } :
                /\ track_df' = tdf
                /\ segments' = segs
                /\ seg_called' = TRUE
                /\ out' = [kind |-> "return", exc |-> "",
                           fig |-> line_traces(segs)
                                   \o << main_marker(h.lat, h.lon),
                                         inset_marker(h.lat, h.lon, h.vis) >>,
                           country_name |-> h.country_name,
                           country_color |-> h.country_color,
                           track_data |-> [lat |-> h.st_lat, lon |-> h.st_lon,
                                           vis |-> h.st_vis]]
                /\ track_store' = [lat |-> h.st_lat, lon |-> h.st_lon,
                                   vis |-> h.st_vis]
    /\ Becomes(t, Idle)
    /\ UNCHANGED <<TRACK_LAT, TRACK_LON, TRACK_VIS, prev_state, telemetry,
                   geocode, appended>>

ConcNext ==
    \E t \in Handlers :
        \/ ConcFetch(t)
        \/ ConcAppendLat(t)
        \/ ConcAppendLon(t)
        \/ ConcAppendVis(t)
        \/ ConcCopy(t)
        \/ ConcDataFrame(t)
        \/ ConcFigure(t)

ConcSpec == Init /\ [][ConcNext]_vars

---------------------------------------------------------------------------
(* split_segments alone, applied to every DataFrame of at most MaxLen rows *)

Frames == UNION { [1..n -> Samples] : n \in 0..MaxLen }

SegInit ==
    /\ TRACK_LAT = <<>>
    /\ TRACK_LON = <<>>
    /\ TRACK_VIS = <<>>
    /\ track_store = EmptyStore
    /\ out = Produced("none", "")
    /\ track_df \in Frames
    /\ segments = <<>>
    /\ seg_called = FALSE
    /\ prev_state = EmptyStore
    /\ telemetry = TelemetryExc("no tick yet")
    /\ geocode = NotRequested
    /\ appended = <<>>
    /\ handlers = [t \in Handlers |-> Idle]

SegCall ==
    /\ ~seg_called
    /\ segments' = split_segments(track_df)
    /\ seg_called' = TRUE
    /\ UNCHANGED <<TRACK_LAT, TRACK_LON, TRACK_VIS, track_store, out,
                   track_df, prev_state, telemetry, geocode, appended,
                   handlers>>

SegNext == SegCall

SegSpec == SegInit /\ [][SegNext]_vars

---------------------------------------------------------------------------
(* Helpers of the properties *)

Min(a, b) == IF a <= b THEN a ELSE b

\* the last n elements of seq
LastN(seq, n) == SubSeq(seq, Len(seq) - n + 1, Len(seq))

RECURSIVE Flatten(_)
\* the concatenation of a sequence of sequences
Flatten(segs) == IF segs = <<>> THEN <<>> ELSE Head(segs) \o Flatten(Tail(segs))

\* the three deques hold the same number of elements
SameLength == Len(TRACK_LAT) = Len(TRACK_LON) /\ Len(TRACK_LON) = Len(TRACK_VIS)

\* the samples in the three deques, front first
Buffer == [i \in 1..Len(TRACK_LAT) |->
              [lat |-> TRACK_LAT[i], lon |-> TRACK_LON[i], vis |-> TRACK_VIS[i]]]

\* the telemetry exchange of the last tick ended in an exception that
\* get_iss_telemetry turns into None
FetchFailed == telemetry.exc \in {"Timeout", "ConnectionError", "HTTPError"}

\* the last tick ran to its return statement
Succeeded == out.kind = "return"

---------------------------------------------------------------------------
(* C1 *)

\* C1: a tick whose telemetry fetch fails (timeout, connection error, HTTP
\* error) ends with PreventUpdate, emits no figure and no store update, and
\* leaves the three deques exactly as they were before the tick.
C1_TickAtomicity ==
    [][FetchFailed' =>
          /\ out'.kind = "PreventUpdate"
          /\ out'.fig = <<>>
          /\ out'.track_data = EmptyStore
          /\ TRACK_LAT' = TRACK_LAT
          /\ TRACK_LON' = TRACK_LON
          /\ TRACK_VIS' = TRACK_VIS
          /\ track_store' = track_store]_vars

\* a fetch has failed on a full buffer
C1_Witness ==
    /\ telemetry.exc = "Timeout"
    /\ out.kind = "PreventUpdate"
    /\ Len(TRACK_LAT) = MAX_POINTS

---------------------------------------------------------------------------
(* C2 *)

\* C2: the buffer always holds between 0 and MAX_POINTS samples; a
\* successful tick grows it by exactly one below capacity and leaves its size
\* unchanged at capacity; any other tick leaves its size unchanged.
C2_BoundedSize ==
    /\ [](/\ Len(TRACK_LAT) \in 0..MAX_POINTS
          /\ Len(TRACK_LON) \in 0..MAX_POINTS
          /\ Len(TRACK_VIS) \in 0..MAX_POINTS)
    /\ [][\A n \in {Len(TRACK_LAT)} :
             LET grown == IF Succeeded' /\ n < MAX_POINTS THEN n + 1 ELSE n
             IN  /\ Len(TRACK_LAT') = grown
                 /\ Len(TRACK_LON') = grown
                 /\ Len(TRACK_VIS') = grown]_vars

\* a successful tick has run on a buffer already at capacity
C2_Witness ==
    /\ Succeeded
    /\ Len(appended) > MAX_POINTS
    /\ Len(TRACK_LAT) = MAX_POINTS

---------------------------------------------------------------------------
(* C3 *)

\* C3: after MAX_POINTS + k successful appends (k >= 0) into the initially
\* empty buffer, the buffer holds exactly the last MAX_POINTS appended
\* samples in arrival order, oldest at the front and newest at the back.
C3_StrictFifo ==
    Len(appended) >= MAX_POINTS =>
        /\ SameLength
        /\ Buffer = LastN(appended, MAX_POINTS)

\* the buffer has turned over: two samples were evicted
C3_Witness ==
    /\ Len(appended) = MAX_POINTS + 2
    /\ Buffer # SubSeq(appended, 1, MAX_POINTS)
    /\ Buffer[1] # Buffer[MAX_POINTS]

---------------------------------------------------------------------------
(* C4 *)

\* C4: concatenating the segments split_segments returns, in order,
\* reproduces its input exactly; an empty input yields no segment.
C4_PartitionLaw ==
    seg_called =>
        /\ Flatten(segments) = track_df
        /\ track_df = <<>> => segments = <<>>

\* split_segments has cut a DataFrame into several segments, one of them
\* of two rows or more
C4_Witness ==
    /\ seg_called
    /\ Len(segments) >= 2
    /\ \E k \in 1..Len(segments) : Len(segments[k]) >= 2

---------------------------------------------------------------------------
(* C5 *)

\* the adjacent pairs of rows of df whose visibility differs
Changes(df) == { i \in 1..(Len(df) - 1) : df[i].vis # df[i + 1].vis }

\* C5: every segment is non-empty, holds one visibility value only, and
\* differs in visibility from the segment after it; a non-empty input has
\* 1 + (number of adjacent rows whose visibility differs) segments.
C5_MaximalRuns ==
    seg_called =>
        /\ \A k \in 1..Len(segments) : segments[k] # <<>>
        /\ \A k \in 1..Len(segments) :
              \A i, j \in 1..Len(segments[k]) :
                 segments[k][i].vis = segments[k][j].vis
        /\ \A k \in 1..(Len(segments) - 1) :
              segments[k][1].vis # segments[k + 1][1].vis
        /\ track_df # <<>> =>
              Len(segments) = 1 + Cardinality(Changes(track_df))

\* three runs, the first of two rows
C5_Witness ==
    /\ seg_called
    /\ Len(segments) = 3
    /\ Len(segments[1]) = 2

---------------------------------------------------------------------------
(* C6 *)

\* C6: for each of non-2xx status, non-JSON body, timeout and connection
\* failure, get_iss_telemetry returns None and nothing is raised into
\* update_map.
C6_FetchNeverRaises ==
    telemetry.exc \in {"HTTPError", "JSONDecodeError", "Timeout", "ConnectionError"} =>
        /\ get_iss_telemetry(telemetry).ret = "None"
        /\ out.kind = "PreventUpdate"

---------------------------------------------------------------------------
(* C7 *)

\* the telemetry body of the last tick parsed as JSON but lacks a field or
\* carries a non-numeric value for a numeric field
IncompleteBody == telemetry.exc = "" /\ telemetry.body \in BadBodies

\* C7: a telemetry body that lacks latitude, longitude, altitude, velocity or
\* visibility, or carries a non-numeric value for a numeric field, ends the
\* tick with PreventUpdate (no uncaught error) and the buffer unmodified.
C7_IncompleteBodyIsNoUpdate ==
    [][IncompleteBody' =>
          /\ out'.kind = "PreventUpdate"
          /\ TRACK_LAT' = TRACK_LAT
          /\ TRACK_LON' = TRACK_LON
          /\ TRACK_VIS' = TRACK_VIS]_vars

---------------------------------------------------------------------------
(* C8 *)

\* the country lookup of the last tick failed: an exception of requests, or
\* a body that is no JSON object or whose country_code is no string
GeocodeFailed ==
    \/ geocode.exc \in {"Timeout", "ConnectionError", "HTTPError", "JSONDecodeError"}
    \/ geocode.exc = "" /\ geocode.shape # "object"
    \/ geocode.exc = "" /\ geocode.country_code.t = "num"

\* the sample a complete telemetry body carries
SampleOf(body) ==
    [lat |-> body.latitude.n, lon |-> body.longitude.n, vis |-> body.visibility.s]

\* C8: when the telemetry fetch succeeds and the country lookup fails in any
\* way, the tick raises nothing, labels the position "Ocean" in "red",
\* appends exactly one sample and returns a figure.
C8_GeocodeFailureAbsorbed ==
    [][(telemetry' \in GoodTelemetry /\ GeocodeFailed') =>
          /\ out'.kind = "return"
          /\ out'.country_name = "Ocean"
          /\ out'.country_color = "red"
          /\ appended' = Append(appended, SampleOf(telemetry'.body))
          /\ out'.fig # <<>>]_vars

---------------------------------------------------------------------------
(* C9 *)

\* the last tick returned and its country lookup got a JSON object whose
\* country_code is a string or is missing
CodeLookedUp ==
    /\ Succeeded
    /\ geocode.exc = ""
    /\ geocode.shape = "object"
    /\ geocode.country_code.t \in {"str", "absent"}

\* country_code is absent, empty or "??"
NoCode ==
    \/ geocode.country_code.t = "absent"
    \/ geocode.country_code.s \in {"", "??"}

\* country_code, upper-cased, is an alpha_2 code of the table
InTable == ~NoCode /\ upper(geocode.country_code.s) \in DOMAIN countries

---------------------------------------------------------------------------
(* C10 *)

\* the fixed colour table of the three known visibility values
StyleOf(vis) ==
    CASE vis = "daylight" -> "white"
      [] vis = "visible" -> "#FFFF00"
      [] vis = "eclipsed" -> "red"

KnownVisibility(seg) == seg[1].vis \in {"daylight", "visible", "eclipsed"}

IsLineLayer(trace) == trace.mode = "lines"

\* C10: the figure of a successful tick holds exactly one line layer per
\* segment of known visibility (daylight, visible, eclipsed), in segment
\* order, coloured by the fixed table; a segment of any other visibility has
\* no line layer and raises nothing, and its samples stay in the buffer and
\* in the store output.
C10_UnknownVisibilityDrop ==
    Succeeded =>
        LET known == SelectSeq(segments, KnownVisibility)
            layers == SelectSeq(out.fig, IsLineLayer)
        IN  /\ Len(layers) = Len(known)
            /\ \A k \in 1..Len(known) :
                  /\ layers[k].lat = column(known[k], "lat")
                  /\ layers[k].lon = column(known[k], "lon")
                  /\ layers[k].color = StyleOf(known[k][1].vis)
                  /\ layers[k].geo = "geo"
            /\ SameLength
            /\ Flatten(segments) = Buffer
            /\ out.track_data = [lat |-> TRACK_LAT, lon |-> TRACK_LON,
                                 vis |-> TRACK_VIS]

\* a tick has rendered a buffer holding a sample of unknown visibility next
\* to one of known visibility
C10_Witness ==
    /\ Succeeded
    /\ Len(segments) >= 2
    /\ \E k \in 1..Len(segments) : ~KnownVisibility(segments[k])
    /\ \E i \in 1..Len(TRACK_VIS) : TRACK_VIS[i] = "twilight"
    /\ Len(SelectSeq(out.fig, IsLineLayer)) = Len(segments) - 1

---------------------------------------------------------------------------
(* C11 *)

\* the rows of a store value whose three arrays have one length
StoreRows(td) ==
    [i \in 1..Len(td.lat) |->
        [lat |-> td.lat[i], lon |-> td.lon[i], vis |-> td.vis[i]]]

\* C11: the store output of every successful tick is three parallel arrays
\* lat, lon, vis of one length, at most MAX_POINTS, equal to the contents of
\* the buffer right after that tick's append, element i of each array
\* belonging to the same sample.
C11_StoreShape ==
    Succeeded =>
        \E td \in {out.track_data} :
            /\ Len(td.lat) = Len(td.lon)
            /\ Len(td.lon) = Len(td.vis)
            /\ Len(td.lat) <= MAX_POINTS
            /\ td.lat = TRACK_LAT
            /\ td.lon = TRACK_LON
            /\ td.vis = TRACK_VIS
            /\ StoreRows(td) = LastN(appended, Min(Len(appended), MAX_POINTS))
            /\ StoreRows(td)[Len(td.lat)] = SampleOf(telemetry.body)
            /\ track_store = td

\* a tick on a full buffer has returned its store output
C11_Witness ==
    /\ Succeeded
    /\ Len(appended) > MAX_POINTS
    /\ Len(out.track_data.vis) = MAX_POINTS
    /\ out.track_data.lat[1] # out.track_data.lat[MAX_POINTS]

---------------------------------------------------------------------------
(* C12 *)

\* C12: no telemetry or geocode error leaves state behind: from every
\* reachable state, a tick whose telemetry fetch succeeds appends its sample
\* and returns a figure.
C12_SelfHealing ==
    [][telemetry' \in GoodTelemetry =>
          /\ out'.kind = "return"
          /\ out'.fig # <<>>
          /\ Len(TRACK_LAT') > 0
          /\ TRACK_LAT'[Len(TRACK_LAT')] = telemetry'.body.latitude.n
          /\ TRACK_LON'[Len(TRACK_LON')] = telemetry'.body.longitude.n
          /\ TRACK_VIS'[Len(TRACK_VIS')] = telemetry'.body.visibility.s]_vars

---------------------------------------------------------------------------
(* C14 *)

IsMarker(trace) == trace.mode # "lines"

\* the two markers of the figure are one main and one inset marker, both at
\* the position of the sample of this tick, which is the newest element of
\* the buffer
MarkersAtNewestSample ==
    \E s \in {SampleOf(telemetry.body)} :
        \E markers \in {SelectSeq(out.fig, IsMarker)} :
            /\ Len(markers) = 2
            /\ markers[1].mode = "text" /\ markers[1].geo = "geo"
            /\ markers[2].mode = "markers" /\ markers[2].geo = "geo2"
            /\ \A m \in 1..2 :
                  markers[m].lat = <<s.lat>> /\ markers[m].lon = <<s.lon>>
            /\ SameLength
            /\ Buffer # <<>>
            /\ Buffer[Len(Buffer)] = s

\* the last line layer of the figure ends at the position of the sample of
\* this tick
LastLayerEndsAtSample ==
    \E layers \in {SelectSeq(out.fig, IsLineLayer)} :
        /\ layers # <<>>
        /\ \E l \in {layers[Len(layers)]} :
              /\ l.lat[Len(l.lat)] = telemetry.body.latitude.n
              /\ l.lon[Len(l.lon)] = telemetry.body.longitude.n

\* the last segment split_segments returned ends with the sample of this tick
LastSegmentEndsAtSample ==
    /\ segments # <<>>
    /\ \E seg \in {segments[Len(segments)]} :
          seg[Len(seg)] = SampleOf(telemetry.body)

\* C14 as claimed: a successful tick emits exactly two markers, both at the
\* sample of this tick, and that sample is the newest element of the buffer
\* and of the last rendered segment.
C14_NewestEndsLastRenderedSegment ==
    Succeeded => (MarkersAtNewestSample /\ LastLayerEndsAtSample)

\* C14 as amended: a successful tick emits exactly two markers, both at the
\* sample of this tick; that sample is the newest element of the buffer and
\* of the last segment split_segments returned; that segment is rendered, as
\* the last line layer, exactly when the sample's visibility is a key of
\* color_map.
C14_MarkersAtNewestSample ==
    Succeeded =>
        /\ MarkersAtNewestSample
        /\ LastSegmentEndsAtSample
        /\ KnownVisibility(segments[Len(segments)]) => LastLayerEndsAtSample
        /\ ~KnownVisibility(segments[Len(segments)]) =>
              Len(SelectSeq(out.fig, IsLineLayer)) < Len(segments)

\* a tick whose sample has an unknown visibility has returned a figure whose
\* line layers end before the marker
C14_Witness ==
    /\ Succeeded
    /\ telemetry.body.visibility.s = "twilight"
    /\ Len(segments) >= 2
    /\ SelectSeq(out.fig, IsLineLayer) # <<>>
    /\ Len(SelectSeq(out.fig, IsMarker)) = 2

---------------------------------------------------------------------------
(* C15 *)

\* a store value no tick has produced
ForgedStore == [lat |-> <<9>>, lon |-> <<9>>, vis |-> <<"visible">>]

\* values the client may pass as track_data: the initial data, what the last
\* tick returned, something else
PreviousStates ==
    { EmptyStore, ForgedStore,
      [lat |-> TRACK_LAT, lon |-> TRACK_LON, vis |-> TRACK_VIS] }

---------------------------------------------------------------------------
(* C13 *)

\* three list copies of one length whose elements at each index are the
\* latitude, longitude and visibility of one sample
Aligned(lat, lon, vis) ==
    /\ Len(lat) = Len(lon)
    /\ Len(lon) = Len(vis)
    /\ \A i \in 1..Len(lat) :
          [lat |-> lat[i], lon |-> lon[i], vis |-> vis[i]] \in ConcSamples

\* C13: under every interleaving of the handlers at the granularity of the
\* single appends and list copies, each snapshot a tick has taken (the three
\* copies for the DataFrame, the three copies for the store) has one length
\* and holds at each index the values of one sample.
C13_SnapshotsConsistent ==
    \A t \in Handlers :
        /\ handlers[t].pc = "DataFrame" =>
              Aligned(handlers[t].df_lat, handlers[t].df_lon, handlers[t].df_vis)
        /\ handlers[t].pc = "figure" =>
              Aligned(handlers[t].st_lat, handlers[t].st_lon, handlers[t].st_vis)

=============================================================================
